---- MODULE Spec2Model ----
(***************************************************************************)
(* Model of src/src/phone.rs: the four pattern predicates, is_phone,       *)
(* to_standard_format, get_segment and the string conversions of the two   *)
(* enumerations PhoneType and MobileVendor.                                 *)
(*                                                                         *)
(* A Rust &str is modelled as a sequence of characters.  Each character is *)
(* a TLA+ string: an ASCII character stands for itself, a non-ASCII one is *)
(* named by its code point ("u0663" is ARABIC-INDIC DIGIT THREE).  Slices  *)
(* (&number[a..b]) are taken at UTF-8 byte offsets, as Rust takes them,    *)
(* and panic when an offset is past the end or inside a character.         *)
(***************************************************************************)
EXTENDS Integers, Sequences, FiniteSets, TLC

VARIABLES number, out

vars == <<number, out>>

(***************************************************************************)
(* Characters                                                              *)
(***************************************************************************)
AsciiDigit == {"0", "1", "2", "3", "4", "5", "6", "7", "8", "9"}

\* Characters whose UTF-8 encoding takes two bytes (U+0080..U+07FF).
TwoByteChar == {"u0663"}

\* Characters whose UTF-8 encoding takes three bytes (U+0800..U+FFFF).
ThreeByteChar == {"u8054", "u901a", "u7535", "u4fe1", "u79fb", "u52a8",
                  "u5e7f", "u672a", "u77e5"}

\* The pattern class \d.  The patterns are compiled in the regex crate's
\* default (Unicode) mode, where \d is the general category Nd: the ASCII
\* digits and every other decimal digit, of which u0663 is one.
IsDigit(c) == c \in AsciiDigit \cup {"u0663"}

\* The pattern class [3-9]: a range of code points, ASCII only.
IsDigit3To9(c) == c \in {"3", "4", "5", "6", "7", "8", "9"}

\* char::len_utf8
Width(c) == IF c \in TwoByteChar THEN 2 ELSE IF c \in ThreeByteChar THEN 3 ELSE 1

RECURSIVE ByteLen(_)
\* str::len: the length of s in bytes.
ByteLen(s) == IF s = <<>> THEN 0 ELSE Width(Head(s)) + ByteLen(Tail(s))

RECURSIVE CharsFrom(_, _, _)
\* The number of characters, counted from position k of s, that take up
\* exactly i bytes; -1 when i bytes end past s or inside a character.
CharsFrom(s, k, i) ==
    IF i = 0 THEN 0
    ELSE IF k > Len(s) \/ i < Width(s[k]) THEN -1
    ELSE LET rest == CharsFrom(s, k + 1, i - Width(s[k]))
         IN  IF rest < 0 THEN -1 ELSE rest + 1

\* The number of characters in the first i bytes of s, -1 when byte i is
\* no character boundary of s.
CharsBefore(s, i) == CharsFrom(s, 1, i)

\* str::is_char_boundary: i is 0, the byte length, or the first byte of a character.
IsCharBoundary(s, i) == CharsBefore(s, i) >= 0

Panic == [panic |-> TRUE, str |-> <<>>]

Ok(s) == [panic |-> FALSE, str |-> s]

\* &s[a..b]: the bytes a..b-1 of s; panics unless a <= b and both are
\* character boundaries of s.
Slice(s, a, b) ==
    LET from == CharsBefore(s, a)
        to == CharsBefore(s, b)
    IN  IF a <= b /\ from >= 0 /\ to >= 0
        THEN Ok(SubSeq(s, from + 1, to))
        ELSE Panic

\* &s[a..]
SliceFrom(s, a) == Slice(s, a, ByteLen(s))

\* &s[..b]
SliceTo(s, b) == Slice(s, 0, b)

\* str::starts_with
StartsWith(s, p) == Len(s) >= Len(p) /\ SubSeq(s, 1, Len(p)) = p

\* s with its first n characters removed.
Drop(s, n) == SubSeq(s, n + 1, Len(s))

\* Every character of s from position i to position j is matched by \d.
AllDigits(s, i, j) == \A k \in i..j : IsDigit(s[k])

(***************************************************************************)
(* Pattern predicates.  An optional group (lit)? either consumes lit or    *)
(* nothing: AfterOpt gives every remainder the matcher may continue from.  *)
(***************************************************************************)
AfterOpt(S, lit) == S \cup {Drop(r, Len(lit)) : r \in {x \in S : StartsWith(x, lit)}}

\* ^(\+)?(86)?(0)?1[3-9]\d{9}$
is_mobile(n) ==
    \E r \in AfterOpt(AfterOpt(AfterOpt({n}, <<"+">>), <<"8", "6">>), <<"0">>) :
        /\ Len(r) = 11
        /\ r[1] = "1"
        /\ IsDigit3To9(r[2])
        /\ AllDigits(r, 3, 11)

\* ([-,]\d{4,7})?$ : nothing, or a separator and 4 to 7 digits, then the end.
MatchesExtension(t) ==
    \/ t = <<>>
    \/ /\ Len(t) - 1 \in 4..7
       /\ t[1] \in {"-", ","}
       /\ AllDigits(t, 2, Len(t))

\* ^(\+)?(86)?0\d{9,11}([-,]\d{4,7})?$
is_telephone(n) ==
    \E r \in AfterOpt(AfterOpt({n}, <<"+">>), <<"8", "6">>) :
        /\ Len(r) >= 1
        /\ r[1] = "0"
        /\ \E d \in 9..11 :
              /\ Len(r) >= 1 + d
              /\ AllDigits(r, 2, 1 + d)
              /\ MatchesExtension(Drop(r, 1 + d))

\* ^1\d{7}$|^[1,9]\d{4}$ : the class [1,9] holds the three characters 1 , 9
is_service(n) ==
    \/ /\ Len(n) = 8
       /\ n[1] = "1"
       /\ AllDigits(n, 2, 8)
    \/ /\ Len(n) = 5
       /\ n[1] \in {"1", ",", "9"}
       /\ AllDigits(n, 2, 5)

\* ^00\d{8,}$
is_idd(n) ==
    /\ Len(n) >= 10
    /\ n[1] = "0"
    /\ n[2] = "0"
    /\ AllDigits(n, 3, Len(n))

is_phone(n) == is_mobile(n) \/ is_telephone(n) \/ is_service(n) \/ is_idd(n)

(***************************************************************************)
(* to_standard_format                                                      *)
(***************************************************************************)
\* Mutant: the '+' is counted as two bytes.
OffsetPlus_OffByOne(n) == IF StartsWith(n, <<"+">>) THEN 2 ELSE 0

\* The offset after the first test: past a leading '+'.
OffsetPlus(n) == IF StartsWith(n, <<"+">>) THEN 1 ELSE 0

\* Mutant: "86" is looked for only when there was no '+' (else if).
OffsetCountry_ElseIf(n) ==
    IF StartsWith(n, <<"+">>) THEN 1
    ELSE IF StartsWith(n, <<"8", "6">>) THEN 2 ELSE 0

\* The offset after the second test: past "86" at the offset.
OffsetCountry(n) ==
    LET o == OffsetPlus(n)
        r == SliceFrom(n, o)
    IN  IF r.panic THEN -1
        ELSE IF StartsWith(r.str, <<"8", "6">>) THEN o + 2 ELSE o

\* Mutant: the trunk '0' of a mobile number is left in place.
OffsetTrunk_Kept(n) == OffsetCountry(n)

\* Mutant: a leading '0' is dropped whether or not a mobile number follows.
OffsetTrunk_AnyZero(n) ==
    LET o == OffsetCountry(n)
        r == IF o < 0 THEN Panic ELSE SliceFrom(n, o)
    IN  IF r.panic THEN -1
        ELSE IF StartsWith(r.str, <<"0">>) THEN o + 1 ELSE o

\* The offset after the third test: past a '0' that starts a mobile number.
OffsetTrunk(n) ==
    LET o == OffsetCountry(n)
        r == IF o < 0 THEN Panic ELSE SliceFrom(n, o)
    IN  IF r.panic THEN -1
        ELSE IF is_mobile(r.str) /\ StartsWith(r.str, <<"0">>) THEN o + 1 ELSE o

to_standard_format(n) ==
    LET o == OffsetTrunk(n)
    IN  IF o < 0 THEN Panic ELSE SliceFrom(n, o)

(***************************************************************************)
(* get_segment                                                             *)
(***************************************************************************)
SegPanic == [panic |-> TRUE, type |-> "none", key |-> <<>>]

\* (type, key) when the slice succeeded, a panic otherwise.
Segment(type, slice) ==
    IF slice.panic THEN SegPanic
    ELSE [panic |-> FALSE, type |-> type, key |-> slice.str]

\* The landline branches: number[..2] is evaluated only when number does
\* not start with "010" (|| short-circuits).
TelSegment(n) ==
    IF StartsWith(n, <<"0", "1", "0">>)
    THEN Segment("Tel", SliceTo(n, 3))
    ELSE LET two == SliceTo(n, 2)
         IN  IF two.panic THEN SegPanic
             ELSE IF StartsWith(two.str, <<"0", "2">>)
                  THEN Segment("Tel", SliceTo(n, 3))
                  ELSE Segment("Tel", SliceTo(n, 4))

get_segment(n) ==
    IF is_mobile(n) THEN Segment("Mobile", SliceTo(n, 7))
    ELSE IF is_idd(n) THEN Segment("Idd", Slice(n, 2, 6))
    ELSE IF is_service(n) THEN Segment("Service", Ok(n))
    ELSE TelSegment(n)

(***************************************************************************)
(* Enumerations                                                            *)
(***************************************************************************)
PhoneType == {"Tel", "Mobile", "Idd", "Service", "Others"}

MobileVendor == {"Mobile", "Unicom", "Telecom", "Cbn", "Others"}

UpperCase == <<"A", "B", "C", "D", "E", "F", "G", "H", "I", "J", "K", "L", "M",
               "N", "O", "P", "Q", "R", "S", "T", "U", "V", "W", "X", "Y", "Z">>

LowerCase == <<"a", "b", "c", "d", "e", "f", "g", "h", "i", "j", "k", "l", "m",
               "n", "o", "p", "q", "r", "s", "t", "u", "v", "w", "x", "y", "z">>

\* char::to_lowercase on the characters of the model: an upper-case letter
\* becomes its lower-case letter, every other character is kept.
LowerChar(c) ==
    IF \E i \in DOMAIN UpperCase : UpperCase[i] = c
    THEN LowerCase[CHOOSE i \in DOMAIN UpperCase : UpperCase[i] = c]
    ELSE c

\* Mutant: the text is matched as given, without lower-casing.
to_lowercase_Identity(s) == s

\* str::to_lowercase
to_lowercase(s) == [i \in DOMAIN s |-> LowerChar(s[i])]

\* impl ToString for PhoneType
PhoneType_to_string(v) ==
    CASE v = "Tel" -> <<"T", "E", "L">>
      [] v = "Mobile" -> <<"M", "O", "B", "I", "L", "E">>
      [] v = "Idd" -> <<"I", "D", "D">>
      [] v = "Service" -> <<"S", "E", "R", "V", "I", "C", "E">>
      [] OTHER -> <<"O", "T", "H", "E", "R", "S">>

\* impl From<String> for PhoneType
PhoneType_from(v) ==
    LET s == to_lowercase(v)
    IN  CASE s = <<"t", "e", "l">> -> "Tel"
          [] s = <<"m", "o", "b", "i", "l", "e">> -> "Mobile"
          [] s = <<"i", "d", "d">> -> "Idd"
          [] s = <<"s", "e", "r", "v", "i", "c", "e">> -> "Service"
          [] OTHER -> "Others"

\* impl ToString for MobileVendor
MobileVendor_to_string(v) ==
    CASE v = "Unicom" -> <<"1", "0", "0", "1", "0", " ", "u8054", "u901a">>
      [] v = "Telecom" -> <<"1", "0", "0", "0", "0", " ", "u7535", "u4fe1">>
      [] v = "Mobile" -> <<"1", "0", "0", "8", "6", " ", "u79fb", "u52a8">>
      [] v = "Cbn" -> <<"1", "0", "0", "9", "9", " ", "u5e7f", "u7535">>
      [] OTHER -> <<"u", "n", "k", "n", "o", "w", "n", " ", "u672a", "u77e5">>

\* impl From<String> for MobileVendor
MobileVendor_from(v) ==
    LET s == to_lowercase(v)
    IN  CASE s \in {<<"1", "0", "0", "1", "0", " ", "u8054", "u901a">>,
                    <<"1", "0", "0", "1", "0">>,
                    <<"u", "n", "i", "c", "o", "m">>} -> "Unicom"
          [] s \in {<<"1", "0", "0", "0", "0", " ", "u7535", "u4fe1">>,
                    <<"1", "0", "0", "0", "0">>,
                    <<"t", "e", "l", "e", "c", "o", "m">>} -> "Telecom"
          [] s \in {<<"1", "0", "0", "8", "6", " ", "u79fb", "u52a8">>,
                    <<"1", "0", "0", "8", "6">>,
                    <<"m", "o", "b", "i", "l", "e">>} -> "Mobile"
          [] s \in {<<"1", "0", "0", "9", "9", " ", "u5e7f", "u7535">>,
                    <<"1", "0", "0", "9", "9">>,
                    <<"c", "b", "n">>} -> "Cbn"
          [] OTHER -> "Others"

(***************************************************************************)
(* Inputs.  A text is an optional '+', an optional "86", up to two '0',    *)
(* two optional leading characters, a run of the digit 3 and an optional        *)
(* tail (an extension, or one non-ASCII digit); or one of the texts the tests give to From<String>.          *)
(***************************************************************************)
MaxRun == 11

Run(d, n) == [i \in 1..n |-> d]

PlusPart == {<<>>, <<"+">>}

CountryPart == {<<>>, <<"8", "6">>}

ZeroPart == {<<>>, <<"0">>, <<"0", "0">>}

FirstChar == {<<>>, <<"1">>, <<"2">>, <<"9">>, <<",">>}

SecondChar == {<<>>, <<"0">>, <<"3">>, <<"u0663">>}

TailPart == {<<>>, <<"-", "3", "3", "3", "3">>, <<"u0663">>}

NumberTexts ==
    {p \o c \o z \o a \o b \o Run("3", n) \o e :
        p \in PlusPart, c \in CountryPart, z \in ZeroPart,
        a \in FirstChar, b \in SecondChar, n \in 0..MaxRun,
        e \in TailPart}

EnumTexts ==
    {<<"T", "e", "L">>, <<"S", "E", "R", "V", "i", "C", "E">>,
     <<"m", "O", "b", "I", "l", "e">>, <<"t", "e", "l", "e", "c", "o", "m">>,
     <<"c", "b", "n">>, <<"U", "n", "i", "c", "o", "m">>}

Texts == NumberTexts \cup EnumTexts

(***************************************************************************)
(* The state: number is the text the caller holds, out the last call made  *)
(* (its operation, its argument and what it returned).                     *)
(***************************************************************************)
Init ==
    /\ number \in Texts
    /\ out = [op |-> "none", arg |-> <<>>, ret |-> FALSE]

IsMobile ==
    /\ out' = [op |-> "is_mobile", arg |-> number, ret |-> is_mobile(number)]
    /\ UNCHANGED number

IsTelephone ==
    /\ out' = [op |-> "is_telephone", arg |-> number, ret |-> is_telephone(number)]
    /\ UNCHANGED number

IsService ==
    /\ out' = [op |-> "is_service", arg |-> number, ret |-> is_service(number)]
    /\ UNCHANGED number

IsIdd ==
    /\ out' = [op |-> "is_idd", arg |-> number, ret |-> is_idd(number)]
    /\ UNCHANGED number

IsPhone ==
    /\ out' = [op |-> "is_phone", arg |-> number, ret |-> is_phone(number)]
    /\ UNCHANGED number

\* The caller goes on with the text returned.
ToStandardFormat ==
    LET r == to_standard_format(number)
    IN  /\ out' = [op |-> "to_standard_format", arg |-> number, ret |-> r]
        /\ number' = IF r.panic THEN number ELSE r.str

GetSegment ==
    /\ out' = [op |-> "get_segment", arg |-> number, ret |-> get_segment(number)]
    /\ UNCHANGED number

PhoneTypeToString ==
    \E v \in PhoneType :
        /\ out' = [op |-> "PhoneType::to_string", arg |-> v,
                   ret |-> PhoneType_to_string(v)]
        /\ number' = PhoneType_to_string(v)

PhoneTypeFrom ==
    /\ out' = [op |-> "PhoneType::from", arg |-> number,
               ret |-> PhoneType_from(number)]
    /\ UNCHANGED number

MobileVendorToString ==
    \E v \in MobileVendor :
        /\ out' = [op |-> "MobileVendor::to_string", arg |-> v,
                   ret |-> MobileVendor_to_string(v)]
        /\ number' = MobileVendor_to_string(v)

MobileVendorFrom ==
    /\ out' = [op |-> "MobileVendor::from", arg |-> number,
               ret |-> MobileVendor_from(number)]
    /\ UNCHANGED number

Next ==
    \/ IsMobile
    \/ IsTelephone
    \/ IsService
    \/ IsIdd
    \/ IsPhone
    \/ ToStandardFormat
    \/ GetSegment
    \/ PhoneTypeToString
    \/ PhoneTypeFrom
    \/ MobileVendorToString
    \/ MobileVendorFrom

Spec == Init /\ [][Next]_vars

(***************************************************************************)
(* Properties                                                              *)
(***************************************************************************)
ToStd == "to_standard_format"

IsAscii(s) == \A i \in DOMAIN s : Width(s[i]) = 1

\* The last k characters of s.
LastChars(s, k) == SubSeq(s, Len(s) - k + 1, Len(s))

\* The priority chain of the specification, in characters.
PriorityChain(s) ==
    IF is_mobile(s) THEN [panic |-> FALSE, type |-> "Mobile", key |-> SubSeq(s, 1, 7)]
    ELSE IF is_idd(s) THEN [panic |-> FALSE, type |-> "Idd", key |-> SubSeq(s, 3, 6)]
    ELSE IF is_service(s) THEN [panic |-> FALSE, type |-> "Service", key |-> s]
    ELSE IF StartsWith(s, <<"0", "1", "0">>) \/ StartsWith(s, <<"0", "2">>)
         THEN [panic |-> FALSE, type |-> "Tel", key |-> SubSeq(s, 1, 3)]
         ELSE [panic |-> FALSE, type |-> "Tel", key |-> SubSeq(s, 1, 4)]

\* C1: for every text accepted by is_phone, get_segment succeeds and
\* returns what the priority chain mobile, idd, service, telephone gives:
\* the first 7 characters, the characters [2,6), the whole text, the first
\* 3 characters after "010" or "02", the first 4 characters otherwise.
C1_PriorityChain ==
    (out.op = "get_segment" /\ is_phone(out.arg))
        => (~out.ret.panic /\ out.ret = PriorityChain(out.arg))

\* On ASCII texts, where a byte is a character, the chain of C1 holds.
AsciiPriorityChain ==
    (out.op = "get_segment" /\ is_phone(out.arg) /\ IsAscii(out.arg))
        => (~out.ret.panic /\ out.ret = PriorityChain(out.arg))

\* The number of characters the landline branch of a text slices.
TelSliceLen(s) ==
    IF StartsWith(s, <<"0", "1", "0">>) \/ StartsWith(s, <<"0", "2">>) THEN 3 ELSE 4

\* C2: on a text that is no mobile, IDD or service number, get_segment
\* fails when the text has fewer characters than its landline branch
\* slices, and a key it returns has exactly 3 or exactly 4 characters.
C2_NoShortKey ==
    (/\ out.op = "get_segment"
     /\ ~is_mobile(out.arg) /\ ~is_idd(out.arg) /\ ~is_service(out.arg))
        => /\ Len(out.arg) < TelSliceLen(out.arg) => out.ret.panic
           /\ ~out.ret.panic => (out.ret.type = "Tel" /\ Len(out.ret.key) \in {3, 4})

\* Counted in UTF-8 bytes instead of characters, the statement of C2 holds.
NoShortKeyInBytes ==
    (/\ out.op = "get_segment"
     /\ ~is_mobile(out.arg) /\ ~is_idd(out.arg) /\ ~is_service(out.arg))
        => /\ ByteLen(out.arg) < TelSliceLen(out.arg) => out.ret.panic
           /\ ~out.ret.panic
                => (out.ret.type = "Tel" /\ ByteLen(out.ret.key) \in {3, 4})

\* C3: to_standard_format of a mobile number, whatever '+', "86" and '0'
\* it starts with, is its last 11 characters: 1, a digit 3..9, 9 digits.
C3_MobileNormalized ==
    (out.op = ToStd /\ is_mobile(out.arg))
        => /\ ~out.ret.panic
           /\ Len(out.ret.str) = 11
           /\ out.ret.str = LastChars(out.arg, 11)
           /\ out.ret.str[1] = "1"
           /\ IsDigit3To9(out.ret.str[2])
           /\ AllDigits(out.ret.str, 3, 11)

C3_Witness ==
    /\ out.op = ToStd
    /\ is_mobile(out.arg)
    /\ StartsWith(out.arg, <<"+", "8", "6", "0">>)
    /\ Len(out.ret.str) = 11

\* C4: to_standard_format applied to what it returned for a mobile number
\* returns the same text again.
C4_Idempotent ==
    [][(/\ out.op = ToStd
        /\ is_mobile(out.arg)
        /\ ~out.ret.panic
        /\ out'.op = ToStd
        /\ out'.arg = out.ret.str) => out'.ret = out.ret]_vars

C4_Witness ==
    /\ out.op = ToStd
    /\ is_mobile(out.arg)
    /\ Len(out.arg) = 11
    /\ out.ret.str = out.arg

\* C5: to_standard_format returns an IDD number unchanged.
C5_IddUnchanged ==
    (out.op = ToStd /\ is_idd(out.arg)) => (~out.ret.panic /\ out.ret.str = out.arg)

C5_Witness == out.op = ToStd /\ is_idd(out.arg) /\ out.ret.str = out.arg

\* '1' and 7 digits, or '1' or '9' and 4 digits.
ServiceShape(s) ==
    \/ Len(s) = 8 /\ s[1] = "1" /\ AllDigits(s, 2, 8)
    \/ Len(s) = 5 /\ s[1] \in {"1", "9"} /\ AllDigits(s, 2, 5)

\* C6: is_service is true exactly of '1' followed by 7 digits and of
\* 5-character codes of '1' or '9' followed by 4 digits.
C6_ServiceIff == out.op = "is_service" => (out.ret <=> ServiceShape(out.arg))

StrippedPrefix ==
    {<<>>, <<"+">>, <<"8", "6">>, <<"+", "8", "6">>, <<"0">>, <<"+", "0">>,
     <<"8", "6", "0">>, <<"+", "8", "6", "0">>}

\* C7: on an ASCII text to_standard_format does not fail and returns the
\* text without one of the prefixes "", +, 86, +86, 0, +0, 860, +860; for
\* "+86" it returns the empty text, which is_phone rejects.
C7_TotalPrefix ==
    (out.op = ToStd /\ IsAscii(out.arg))
        => /\ ~out.ret.panic
           /\ \E p \in StrippedPrefix : out.arg = p \o out.ret.str
           /\ out.arg = <<"+", "8", "6">>
                => (out.ret.str = <<>> /\ ~is_phone(out.ret.str))

C7_Witness == out.op = ToStd /\ out.arg = <<"+", "8", "6">> /\ out.ret = Ok(<<>>)

\* C8: From<String> of the display string of a variant is that variant,
\* for every variant of PhoneType and of MobileVendor.
C8_RoundTrip ==
    /\ \A v \in PhoneType :
          (out.op = "PhoneType::from" /\ out.arg = PhoneType_to_string(v))
              => out.ret = v
    /\ \A v \in MobileVendor :
          (out.op = "MobileVendor::from" /\ out.arg = MobileVendor_to_string(v))
              => out.ret = v

C8_Witness ==
    /\ out.op = "PhoneType::from"
    /\ out.arg = PhoneType_to_string("Service")
    /\ out.ret = "Service"

\* C9: to_standard_format of a text accepted by is_phone is accepted by
\* is_phone.
C9_ValidityPreserved ==
    (out.op = ToStd /\ is_phone(out.arg))
        => (~out.ret.panic /\ is_phone(out.ret.str))

C9_Witness ==
    /\ out.op = ToStd
    /\ is_telephone(out.arg)
    /\ ~is_mobile(out.arg)
    /\ StartsWith(out.arg, <<"+", "8", "6">>)
    /\ out.arg = <<"+", "8", "6">> \o out.ret.str

\* C10: for a text accepted by is_phone, get_segment of the text and
\* get_segment of its standard format both succeed with the same PhoneType.
C10_SameType ==
    (out.op = ToStd /\ is_phone(out.arg))
        => LET raw == get_segment(out.arg)
               std == get_segment(out.ret.str)
           IN  ~raw.panic /\ ~std.panic /\ raw.type = std.type

\* On ASCII texts the two types differ only where the text is a landline
\* number by pattern ('+' or "86" or both, then '0' and 9 to 11 digits)
\* whose standard format starts with "00" and is an IDD number.
AsciiSameTypeUnlessIdd ==
    (out.op = ToStd /\ is_phone(out.arg) /\ IsAscii(out.arg))
        => LET raw == get_segment(out.arg)
               std == get_segment(out.ret.str)
           IN  /\ ~raw.panic /\ ~std.panic
               /\ \/ raw.type = std.type
                  \/ /\ raw.type = "Tel" /\ std.type = "Idd"
                     /\ out.arg \in {<<"+">> \o out.ret.str,
                                     <<"8", "6">> \o out.ret.str,
                                     <<"+", "8", "6">> \o out.ret.str}

\* A landline number by pattern whose standard format is an IDD number.
TelBecomesIdd ==
    /\ out.op = ToStd
    /\ is_phone(out.arg)
    /\ IsAscii(out.arg)
    /\ get_segment(out.arg).type = "Tel"
    /\ get_segment(out.ret.str).type = "Idd"

====
